---- MODULE Spec2Model ----
(***************************************************************************)
(* A model of cyaron's graph generators (src/cyaron/graph.py):             *)
(*   - SwitchGraph, a Counter of ordered pairs with insert / remove /      *)
(*     switch, and the greedy degree-sequence realisations;                *)
(*   - the Graph factories tree, binary_tree, DAG, UDAG, connected.        *)
(* random.* draws are nondeterministic choices (\E) over their ranges.     *)
(* Edge weights are left out: no modelled control flow reads them.         *)
(***************************************************************************)
EXTENDS Integers, Sequences, FiniteSets, TLC

\* ------------------------------------------------------------------ bounds
NumVertex == 4
MaxEdges == 3
\* degree sequences: undirected ones have up to NumVertex entries
MaxDeg == 3
MaxDirLen == 3
MaxDirDeg == 2
\* Graph factories: vertices of a tree, and the grid 0, 1/Den, ..., 1 of the fractions
MaxPoints == 4
Den == 4
\* DAG, UDAG, connected: vertices and requested edges
MaxConnPoints == 3
MaxEdgeCount == 4
\* hack_spfa: vertices and extra edges
MaxSpfaPoints == 6
MaxExtra == 2
\* RangeQuery: dimensions and the largest position
MaxDim == 2
MaxPos == 2
\* from_degree_sequence: the largest n_iter passed
MaxIter == 2

Vertex == 1..NumVertex
Pair == Vertex \X Vertex

\* ------------------------------------------------------------ generic helpers
RECURSIVE SumOver(_, _)
\* sum(f[k] for k in S)
SumOver(f, S) ==
    IF S = {} THEN 0
    ELSE LET k == CHOOSE x \in S : TRUE IN f[k] + SumOver(f, S \ {k})

\* Python's tuple/list comparison a < b on sequences of integers
RECURSIVE LexLess(_, _)
LexLess(a, b) ==
    IF a = <<>> THEN b # <<>>
    ELSE IF b = <<>> THEN FALSE
    ELSE IF Head(a) # Head(b) THEN Head(a) < Head(b)
    ELSE LexLess(Tail(a), Tail(b))

\* itertools.repeat(k, c): nothing when c <= 0
RECURSIVE Repeat(_, _)
Repeat(k, c) == IF c <= 0 THEN <<>> ELSE <<k>> \o Repeat(k, c - 1)

\* ------------------------------------------------------------ SwitchGraph state
VARIABLES
    directed,      \* SwitchGraph.directed
    edges,         \* SwitchGraph.__edges: a Counter, here a function on its stored keys
    phase,         \* "ctor" while __init__ is inserting, "ready" once constructed
    edges0,        \* history: __edges before the current run of switch calls
    op,            \* history: the last method called
    ret,           \* history: what the last switch call returned
    removedAbsent  \* history: switch called remove on a pair that was not stored

sgVars == <<directed, edges, phase, edges0, op, ret, removedAbsent>>

\* ------------------------------------------------------------ realisation state
VARIABLES
    pc,              \* where the running static method is
    degree_sequence, \* the argument
    self_loop,       \* the argument (of switch: that of the last call)
    repeated_edges,  \* the argument (of switch: that of the last call)
    degseq,          \* the working list, [sout, sin, vn] or [deg, i]
    edge_list,       \* from_undirected_degree_sequence's local list "edges"
    err              \* "none", or the exception that ended the call

dsVars == <<pc, degree_sequence, self_loop, repeated_edges, degseq, edge_list, err>>

\* ------------------------------------------------------------ Graph factory state
VARIABLES
    method,         \* the factory that was called
    point_count,    \* the argument
    edge_count_arg, \* the argument edge_count
    arg_directed,   \* the argument directed
    chain,          \* tree's chain, in units of 1/Den
    flower,         \* tree's flower, in units of 1/Den
    left,           \* binary_tree's left, in units of 1/Den
    right,          \* binary_tree's right, in units of 1/Den
    loop,           \* DAG's loop
    caller,         \* the factory that called tree, "none" for a direct call
    g_directed,     \* Graph.directed of the graph being built
    g_edges,        \* Graph.edges: for each vertex 0..point_count its list of edges
    loop_i,         \* the loop variable i
    chain_count,    \* tree's local
    flower_count,   \* tree's local
    can_left,       \* binary_tree's local
    can_right,      \* binary_tree's local
    used_edges,     \* DAG's / UDAG's local
    edge_buf,       \* DAG's local
    buf_pos,        \* position of "for edge in edge_buf"
    lchild,         \* history: the (parent, child) pairs attached on the left
    rchild,         \* history: the (parent, child) pairs attached on the right
    tree_count,     \* forest's argument
    tree_edges,     \* forest's local list of the tree's edges
    extraedg,       \* hack_spfa's extra_edge
    n_iter          \* from_degree_sequence's n_iter: <<>> for None, <<k>> for the int k

argVars == <<method, point_count, edge_count_arg, arg_directed, left, right, loop, tree_count, extraedg,
             n_iter>>
graphVars == <<g_directed, g_edges>>
treeVars == <<chain, flower, caller, chain_count, flower_count>>
btVars == <<can_left, can_right, lchild, rchild>>
connVars == <<used_edges, edge_buf, buf_pos, tree_edges>>
grVars == <<argVars, graphVars, treeVars, btVars, connVars, loop_i>>

\* ------------------------------------------------------------ RangeQuery state
VARIABLES
    position_range, \* the argument: a list of <<"int", x>> or <<"list", <<...>>>>
    mode,           \* the argument: "less" or "allow_equal"
    query_l,        \* the local list
    query_r,        \* the local list
    dim_i           \* the loop variable i of get_one_query

qVars == <<position_range, mode, query_l, query_r, dim_i>>

vars == <<sgVars, dsVars, grVars, qVars>>

\* get_one_query is not running
QIdle ==
    /\ position_range = <<>>
    /\ mode = "none"
    /\ query_l = <<>>
    /\ query_r = <<>>
    /\ dim_i = 0

\* no Graph factory is running
GRIdle ==
    /\ method = "none"
    /\ point_count = 0
    /\ edge_count_arg = 0
    /\ arg_directed = FALSE
    /\ chain = 0
    /\ flower = 0
    /\ left = 0
    /\ right = 0
    /\ loop = FALSE
    /\ caller = "none" /\ tree_count = 0 /\ tree_edges = <<>> /\ extraedg = 0 /\ n_iter = <<>>
    /\ g_directed = FALSE
    /\ g_edges = <<>>
    /\ loop_i = 0
    /\ chain_count = 0
    /\ flower_count = 0
    /\ can_left = <<>>
    /\ can_right = <<>>
    /\ used_edges = {}
    /\ edge_buf = <<>>
    /\ buf_pos = 0
    /\ lchild = {}
    /\ rchild = {}

\* no SwitchGraph method is running
SGIdle ==
    /\ directed = FALSE
    /\ edges = [k \in {} |-> 0]
    /\ phase = "ctor"
    /\ edges0 = [k \in {} |-> 0]
    /\ op = "init"
    /\ ret = FALSE
    /\ removedAbsent = FALSE

\* no static method is running
DSIdle ==
    /\ pc = "none"
    /\ degree_sequence = <<>>
    /\ self_loop = FALSE
    /\ repeated_edges = FALSE
    /\ degseq = <<>>
    /\ edge_list = <<>>
    /\ err = "none"

\* Counter()
EmptyCounter == [k \in {} |-> 0]

\* Counter.__getitem__: a missing key reads as 0 and is not stored
Cnt(E, k) == IF k \in DOMAIN E THEN E[k] ELSE 0

\* self.__edges[(u, v)] += 1
insert_(E, u, v) ==
    [k \in DOMAIN E \cup {<<u, v>>} |-> IF k = <<u, v>> THEN Cnt(E, k) + 1 ELSE E[k]]

\* mutant: the key is kept at 0 instead of popped
remove_nopop(E, u, v) ==
    [k \in DOMAIN E \cup {<<u, v>>} |-> IF k = <<u, v>> THEN Cnt(E, k) - 1 ELSE E[k]]

\* self.__edges[(u, v)] -= 1, popped when it reaches 0
remove_(E, u, v) ==
    LET c == Cnt(E, <<u, v>>) - 1 IN
    IF c = 0 THEN [k \in DOMAIN E \ {<<u, v>>} |-> E[k]]
    ELSE [k \in DOMAIN E \cup {<<u, v>>} |-> IF k = <<u, v>> THEN c ELSE E[k]]

insert(E, d, u, v) ==
    LET E1 == insert_(E, u, v) IN
    IF ~d /\ u # v THEN insert_(E1, v, u) ELSE E1

remove(E, d, u, v) ==
    LET E1 == remove_(E, u, v) IN
    IF ~d /\ u # v THEN remove_(E1, v, u) ELSE E1

\* the smallest key of a non-empty set of pairs, as sorted() orders tuples
MinKey(K) == CHOOSE m \in K : \A k \in K : k = m \/ LexLess(m, k)

RECURSIVE SortedRepeat(_, _)
SortedRepeat(E, K) ==
    IF K = {} THEN <<>>
    ELSE LET m == MinKey(K) IN Repeat(m, E[m]) \o SortedRepeat(E, K \ {m})

get_edges(E, d) == SortedRepeat(E, {k \in DOMAIN E : d \/ k[1] <= k[2]})

edge_count(E, d) == SumOver(E, {k \in DOMAIN E : k[1] <= k[2]})

\* sorted(first) for an undirected graph
Canon(d, e) == IF d \/ e[1] <= e[2] THEN e ELSE <<e[2], e[1]>>

\* the rejection tests of switch, lines 119-128
SwitchRejects(E, sl, re, x1, y1, x2, y2) ==
    \/ sl /\ (x1 = x2 \/ y1 = y2)
    \/ ~sl /\ {x1, y1} \cap {x2, y2} # {}
    \/ ~re /\ (<<x1, y2>> \in DOMAIN E \/ <<x2, y1>> \in DOMAIN E)

\* mutant: the last insert with its arguments swapped
SwitchApply_swapped(E, d, x1, y1, x2, y2) ==
    insert(remove(insert(remove(E, d, x1, y1), d, x1, y2), d, x2, y2), d, y1, x2)

\* lines 130-133
SwitchApply(E, d, x1, y1, x2, y2) ==
    insert(remove(insert(remove(E, d, x1, y1), d, x1, y2), d, x2, y2), d, x2, y1)

\* mutant: the first remove happens before the repeated-edges test
switch_removeEarly(E, d, sl, re, first, second) ==
    LET a == Canon(d, first)
        b == Canon(d, second)
    IN IF SwitchRejects(E, sl, TRUE, a[1], a[2], b[1], b[2])
       THEN <<FALSE, E>>
       ELSE IF SwitchRejects(E, sl, re, a[1], a[2], b[1], b[2])
       THEN <<FALSE, remove(E, d, a[1], a[2])>>
       ELSE <<TRUE, SwitchApply(E, d, a[1], a[2], b[1], b[2])>>

\* switch on drawn keys first, second: <<return value, __edges afterwards>>
switch(E, d, sl, re, first, second) ==
    LET a == Canon(d, first)
        b == Canon(d, second)
    IN IF SwitchRejects(E, sl, re, a[1], a[2], b[1], b[2])
       THEN <<FALSE, E>>
       ELSE <<TRUE, SwitchApply(E, d, a[1], a[2], b[1], b[2])>>

\* remove(u, v) finds the pair (and its mirror when undirected) stored
Present(E, d, u, v) ==
    /\ Cnt(E, <<u, v>>) >= 1
    /\ (d \/ u = v \/ Cnt(E, <<v, u>>) >= 1)

\* the two remove calls of an accepted switch both find their pair
SwitchRemovesPresent(E, d, x1, y1, x2, y2) ==
    /\ Present(E, d, x1, y1)
    /\ Present(insert(remove(E, d, x1, y1), d, x1, y2), d, x2, y2)

\* number of canonical edge instances (for the bound on inserts)
NumEdges(E, d) == SumOver(E, {k \in DOMAIN E : d \/ k[1] <= k[2]})

\* ------------------------------------------------------------ SwitchGraph actions
InitSG ==
    /\ directed \in BOOLEAN
    /\ edges = EmptyCounter
    /\ phase = "ctor"
    /\ edges0 = EmptyCounter
    /\ op = "init"
    /\ ret = FALSE
    /\ removedAbsent = FALSE
    /\ DSIdle
    /\ GRIdle /\ QIdle

\* one iteration of "for e in edges: self.insert(...)" in __init__
CtorInsert ==
    /\ phase = "ctor"
    /\ NumEdges(edges, directed) < MaxEdges
    /\ \E u \in Vertex, v \in Vertex : edges' = insert(edges, directed, u, v)
    /\ UNCHANGED <<directed, phase, edges0, op, ret, removedAbsent>>
    /\ UNCHANGED <<dsVars, qVars>>
    /\ UNCHANGED grVars

\* __init__ returns
CtorDone ==
    /\ phase = "ctor"
    /\ phase' = "ready"
    /\ edges0' = edges
    /\ UNCHANGED <<directed, edges, op, ret, removedAbsent>>
    /\ UNCHANGED <<dsVars, qVars>>
    /\ UNCHANGED grVars

Insert ==
    /\ phase = "ready"
    /\ NumEdges(edges, directed) < MaxEdges
    /\ \E u \in Vertex, v \in Vertex : edges' = insert(edges, directed, u, v)
    /\ edges0' = edges'
    /\ op' = "insert"
    /\ ret' = FALSE
    /\ UNCHANGED <<directed, phase, removedAbsent>>
    /\ UNCHANGED <<dsVars, qVars>>
    /\ UNCHANGED grVars

\* remove, called on a stored pair
Remove ==
    /\ phase = "ready"
    /\ \E k \in DOMAIN edges : edges' = remove(edges, directed, k[1], k[2])
    /\ edges0' = edges'
    /\ op' = "remove"
    /\ ret' = FALSE
    /\ UNCHANGED <<directed, phase, removedAbsent>>
    /\ UNCHANGED <<dsVars, qVars>>
    /\ UNCHANGED grVars

\* random.choices(keys, values, k=2): two keys of positive weight, with replacement
\* (on an empty Counter random.choices raises IndexError and nothing changes)
Switch ==
    /\ phase = "ready"
    /\ \E sl \in BOOLEAN, re \in BOOLEAN :
       \E first \in {k \in DOMAIN edges : edges[k] > 0},
          second \in {k \in DOMAIN edges : edges[k] > 0} :
          LET r == switch(edges, directed, sl, re, first, second)
              a == Canon(directed, first)
              b == Canon(directed, second)
          IN /\ ret' = r[1]
             /\ edges' = r[2]
             /\ removedAbsent' =
                   (removedAbsent \/
                    (r[1] /\ ~SwitchRemovesPresent(edges, directed, a[1], a[2], b[1], b[2])))
             /\ self_loop' = sl
             /\ repeated_edges' = re
    /\ op' = "switch"
    /\ UNCHANGED <<directed, phase, edges0>>
    /\ UNCHANGED <<pc, degree_sequence, degseq, edge_list, err, qVars>>
    /\ UNCHANGED grVars

\* a SwitchGraph under switch calls only
NextSwitch == CtorInsert \/ CtorDone \/ Switch
SpecSwitch == InitSG /\ [][NextSwitch]_vars

\* a SwitchGraph under insert, remove and switch calls
NextMultiset == CtorInsert \/ CtorDone \/ Insert \/ Remove \/ Switch
SpecMultiset == InitSG /\ [][NextMultiset]_vars

\* ------------------------------------------------------------ degree sequences
RECURSIVE SeqSum(_)
\* sum(s)
SeqSum(s) == IF s = <<>> THEN 0 ELSE Head(s) + SeqSum(Tail(s))

RECURSIVE InsertDesc(_, _)
InsertDesc(s, x) ==
    IF s = <<>> THEN <<x>>
    ELSE IF LexLess(Head(s), x) THEN <<x>> \o s
    ELSE <<Head(s)>> \o InsertDesc(Tail(s), x)

RECURSIVE SortDesc(_)
\* list.sort(reverse=True) on a list of lists of integers
SortDesc(s) == IF s = <<>> THEN <<>> ELSE InsertDesc(SortDesc(Tail(s)), Head(s))

\* SwitchGraph(edges, directed): the constructor applied to a list of pairs
RECURSIVE SwitchGraphOf(_, _)
SwitchGraphOf(L, d) ==
    IF L = <<>> THEN EmptyCounter
    ELSE LET n == Len(L) IN insert(SwitchGraphOf(SubSeq(L, 1, n - 1), d), d, L[n][1], L[n][2])

\* the arguments that are tried
DegRange == -1..MaxDeg
UndirSeqs == UNION {[1..n -> DegRange] : n \in 0..NumVertex}
DirDegRange == 0..MaxDirDeg
DirSeqs ==
    UNION {[1..n -> DirDegRange \X DirDegRange] : n \in 0..MaxDirLen}
        \cup {<< <<-1, 0>> >>, << <<0, -1>> >>}

\* ---- from_directed_degree_sequence

\* mutant: the pair read as (sout, sin)
DirectedDegseq_swapped(seq) ==
    SortDesc([vn \in 1..Len(seq) |-> <<seq[vn][1], seq[vn][2], vn>>])

\* lines 163-165: [sout, sin, vn] for vn, (sin, sout) in enumerate(degree_sequence, 1)
DirectedDegseq(seq) ==
    SortDesc([vn \in 1..Len(seq) |-> <<seq[vn][2], seq[vn][1], vn>>])

\* lines 178-183, the innermost while; j counts from 0 as in the code
RECURSIVE DTake(_, _, _, _, _, _, _)
DTake(D, in_deg, j, E, vfrom, vto, re) ==
    IF in_deg # 0 /\ D[j + 1][1] # 0
    THEN LET D1 == [D EXCEPT ![j + 1][1] = @ - 1]
             E1 == insert(E, TRUE, vfrom, vto)
         IN IF ~re THEN <<D1, in_deg - 1, E1>>
            ELSE DTake(D1, in_deg - 1, j, E1, vfrom, vto, re)
    ELSE <<D, in_deg, E>>

\* mutant: the sink is not skipped when self-loops are forbidden
RECURSIVE DWalk_noskip(_, _, _, _, _, _, _)
DWalk_noskip(D, in_deg, j, E, vto, sl, re) ==
    IF in_deg = 0 THEN [raised |-> FALSE, D |-> D, E |-> E]
    ELSE IF j >= Len(D) THEN [raised |-> TRUE, D |-> D, E |-> E]
    ELSE LET t == DTake(D, in_deg, j, E, D[j + 1][3], vto, re)
         IN DWalk_noskip(t[1], t[2], j + 1, t[3], vto, sl, re)

\* lines 173-184, "while in_deg"; raised: degseq[j] was an IndexError
RECURSIVE DWalk(_, _, _, _, _, _, _)
DWalk(D, in_deg, j, E, vto, sl, re) ==
    IF in_deg = 0 THEN [raised |-> FALSE, D |-> D, E |-> E]
    ELSE IF j >= Len(D) THEN [raised |-> TRUE, D |-> D, E |-> E]
    ELSE LET j1 == IF vto = D[j + 1][3] /\ ~sl THEN j + 1 ELSE j
         IN IF j1 >= Len(D) THEN [raised |-> TRUE, D |-> D, E |-> E]
            ELSE LET t == DTake(D, in_deg, j1, E, D[j1 + 1][3], vto, re)
                 IN DWalk(t[1], t[2], j1 + 1, t[3], vto, sl, re)

\* max(s[1] for s in degseq) > 0
DirectedPending(D) == \E i \in 1..Len(D) : D[i][2] > 0

\* lines 169-185, one pass of the outer while
DirectedPass(D, E, sl, re) ==
    LET k == CHOOSE i \in 1..Len(D) :
                 D[i][2] > 0 /\ \A h \in 1..(i - 1) : ~(D[h][2] > 0)
        r == DWalk([D EXCEPT ![k][2] = 0], D[k][2], 0, E, D[k][3], sl, re)
    IN [raised |-> r.raised, D |-> SortDesc(r.D), E |-> r.E]

\* ---- from_undirected_degree_sequence

\* lines 222-226
RECURSIVE USelf(_, _, _, _)
USelf(deg, x, L, re) ==
    IF deg > 1
    THEN IF ~re THEN <<deg - 2, Append(L, <<x, x>>)>>
         ELSE USelf(deg - 2, x, Append(L, <<x, x>>), re)
    ELSE <<deg, L>>

\* mutant: the partner's remaining degree is not consumed
RECURSIVE UTake_keep(_, _, _, _, _, _)
UTake_keep(D, deg, y, L, x, re) ==
    IF deg # 0 /\ D[y + 1][1] # 0
    THEN LET L1 == Append(L, <<x, D[y + 1][2]>>)
         IN IF ~re THEN <<D, deg - 1, L1>>
            ELSE <<D, 0, L1 \o [i \in 1..(deg - 1) |-> <<x, D[y + 1][2]>>]>>
    ELSE <<D, deg, L>>

\* lines 229-234, the innermost while; y counts from 0 as in the code
RECURSIVE UTake(_, _, _, _, _, _)
UTake(D, deg, y, L, x, re) ==
    IF deg # 0 /\ D[y + 1][1] # 0
    THEN LET D1 == [D EXCEPT ![y + 1][1] = @ - 1]
             L1 == Append(L, <<x, D[y + 1][2]>>)
         IN IF ~re THEN <<D1, deg - 1, L1>>
            ELSE UTake(D1, deg - 1, y, L1, x, re)
    ELSE <<D, deg, L>>

\* lines 228-235, "while deg"; raised: degseq[y] was an IndexError
RECURSIVE UWalk(_, _, _, _, _, _)
UWalk(D, deg, y, L, x, re) ==
    IF deg = 0 THEN [raised |-> FALSE, D |-> D, L |-> L]
    ELSE IF y >= Len(D) THEN [raised |-> TRUE, D |-> D, L |-> L]
    ELSE LET t == UTake(D, deg, y, L, x, re)
         IN UWalk(t[1], t[2], y + 1, t[3], x, re)

\* lines 219-236, one pass of the outer while
UndirectedPass(D, L, sl, re) ==
    LET deg == D[1][1]
        x == D[1][2]
        s == IF sl THEN USelf(deg, x, L, re) ELSE <<deg, L>>
        r == UWalk([D EXCEPT ![1][1] = 0], s[1], 1, s[2], x, re)
    IN [raised |-> r.raised, D |-> SortDesc(r.D), L |-> r.L]

\* ------------------------------------------------------------ realisation actions
\* a static method is called: directed says which of the two
InitRealize ==
    /\ directed \in BOOLEAN
    /\ edges = EmptyCounter
    /\ phase = "ctor"
    /\ edges0 = EmptyCounter
    /\ op = "init"
    /\ ret = FALSE
    /\ removedAbsent = FALSE
    /\ pc = "call"
    /\ degree_sequence \in (IF directed THEN DirSeqs ELSE UndirSeqs)
    /\ self_loop \in BOOLEAN
    /\ repeated_edges \in BOOLEAN
    /\ degseq = <<>>
    /\ edge_list = <<>>
    /\ err = "none"
    /\ GRIdle /\ QIdle

\* a realisation was called: directly, or by Graph.from_degree_sequence (lines 558, 565)
RealizeCalled == pc = "realize" \/ (pc = "call" /\ method = "none")

Raise(e) ==
    /\ pc' = "error"
    /\ err' = e
    /\ edges' = EmptyCounter
    /\ UNCHANGED <<directed, phase, edges0, op, ret, removedAbsent>>
    /\ UNCHANGED <<degree_sequence, self_loop, repeated_edges, degseq, edge_list>>
    /\ UNCHANGED <<grVars, qVars>>

\* the SwitchGraph E is returned
Return(E) ==
    /\ pc' = IF method = "from_degree_sequence" THEN "realized" ELSE "done"
    /\ edges' = E
    /\ edges0' = E
    /\ phase' = "ready"
    /\ UNCHANGED <<directed, op, ret, removedAbsent>>
    /\ UNCHANGED <<degree_sequence, self_loop, repeated_edges, degseq, edge_list, err>>
    /\ UNCHANGED <<grVars, qVars>>

\* lines 151-165
DirectedStart ==
    /\ RealizeCalled /\ directed
    /\ IF \E i \in 1..Len(degree_sequence) :
             degree_sequence[i][1] < 0 \/ degree_sequence[i][2] < 0
       THEN Raise("not_graphical")
       ELSE IF Len(degree_sequence) = 0
       THEN Raise("unpack")   \* x, y = zip(*()) : ValueError, not enough values
       ELSE IF SeqSum([i \in 1..Len(degree_sequence) |-> degree_sequence[i][1]])
                 # SeqSum([i \in 1..Len(degree_sequence) |-> degree_sequence[i][2]])
       THEN Raise("not_graphical")
       ELSE /\ pc' = "directed_loop"
            /\ degseq' = DirectedDegseq(degree_sequence)
            /\ UNCHANGED sgVars
            /\ UNCHANGED <<degree_sequence, self_loop, repeated_edges, edge_list, err>>
            /\ UNCHANGED <<grVars, qVars>>

\* lines 167-187
DirectedRound ==
    /\ pc = "directed_loop"
    /\ DirectedPending(degseq)
    /\ LET r == DirectedPass(degseq, edges, self_loop, repeated_edges)
       IN IF r.raised THEN Raise("not_graphical")
          ELSE /\ degseq' = r.D
               /\ edges' = r.E
               /\ UNCHANGED <<directed, phase, edges0, op, ret, removedAbsent>>
               /\ UNCHANGED <<pc, degree_sequence, self_loop, repeated_edges, edge_list, err>>
               /\ UNCHANGED <<grVars, qVars>>

\* line 189
DirectedReturn ==
    /\ pc = "directed_loop"
    /\ ~DirectedPending(degseq)
    /\ Return(edges)

\* lines 204-216
UndirectedStart ==
    /\ RealizeCalled /\ ~directed
    /\ IF \E i \in 1..Len(degree_sequence) : degree_sequence[i] < 0
       THEN Raise("not_graphical")
       ELSE IF SeqSum(degree_sequence) % 2 # 0
       THEN Raise("not_graphical")
       ELSE IF Len(degree_sequence) = 0
       THEN Return(EmptyCounter)
       ELSE /\ pc' = "undirected_loop"
            /\ degseq' = SortDesc([i \in 1..Len(degree_sequence) |-> <<degree_sequence[i], i>>])
            /\ edge_list' = <<>>
            /\ UNCHANGED sgVars
            /\ UNCHANGED <<degree_sequence, self_loop, repeated_edges, err>>
            /\ UNCHANGED <<grVars, qVars>>

\* lines 217-238
UndirectedRound ==
    /\ pc = "undirected_loop"
    /\ Len(edge_list) * 2 < SeqSum(degree_sequence)
    /\ LET r == UndirectedPass(degseq, edge_list, self_loop, repeated_edges)
       IN IF r.raised THEN Raise("not_graphical")
          ELSE /\ degseq' = r.D
               /\ edge_list' = r.L
               /\ UNCHANGED sgVars
               /\ UNCHANGED <<pc, degree_sequence, self_loop, repeated_edges, err>>
               /\ UNCHANGED <<grVars, qVars>>

\* line 240
UndirectedReturn ==
    /\ pc = "undirected_loop"
    /\ ~(Len(edge_list) * 2 < SeqSum(degree_sequence))
    /\ Return(SwitchGraphOf(edge_list, FALSE))

NextRealize ==
    \/ DirectedStart \/ DirectedRound \/ DirectedReturn
    \/ UndirectedStart \/ UndirectedRound \/ UndirectedReturn
SpecRealize == InitRealize /\ [][NextRealize]_vars

\* ------------------------------------------------------------ Graph
\* Graph(point_count, directed).edges
Graph(n) == [v \in 0..n |-> <<>>]

\* Graph.add_edge, lines 326-336 (an Edge is <<start, end>>)
add_edge(G, d, x, y) ==
    LET G1 == [G EXCEPT ![x] = Append(@, <<x, y>>)]
    IN IF ~d /\ x # y THEN [G1 EXCEPT ![y] = Append(@, <<y, x>>)] ELSE G1

RECURSIVE IterFrom(_, _, _)
IterFrom(G, d, v) ==
    IF v \notin DOMAIN G THEN <<>>
    ELSE SelectSeq(G[v], LAMBDA e : e[2] >= e[1] \/ d) \o IterFrom(G, d, v + 1)

\* Graph.iterate_edges, lines 311-318, as a list
iterate_edges(G, d) == IterFrom(G, d, 0)

\* an exception leaves the factory
GRaise(e) ==
    /\ pc' = "error"
    /\ err' = e
    /\ UNCHANGED <<self_loop, repeated_edges, degree_sequence, degseq, edge_list>>
    /\ UNCHANGED <<sgVars, qVars>>
    /\ UNCHANGED grVars

\* ---- tree, chain, flower

\* lines 403-408: <<chain_count, flower_count>>
TreeCounts(n, c, f) ==
    LET cc0 == ((n - 1) * c) \div Den
        fc0 == ((n - 1) * f) \div Den
        cc == IF cc0 > n - 1 THEN n - 1 ELSE cc0
        fc == IF cc + fc0 > n - 1 THEN n - 1 - cc ELSE fc0
    IN <<cc, fc>>

\* mutant: the random loop starts one vertex early
RandomStart_early(n, cc, fc) == n - (n - 1 - cc - fc)

\* lines 409 and 415: point_count - random_count + 1
RandomStart(n, cc, fc) == n - (n - 1 - cc - fc) + 1

\* the directed keyword tree is called with
TreeDirected == IF caller \in {"DAG", "UDAG"} THEN FALSE ELSE arg_directed

\* chain(point_count): tree(point_count, 1, 0), line 351
ChainCall ==
    /\ pc = "call" /\ method = "chain"
    /\ pc' = "tree"
    /\ chain' = Den
    /\ flower' = 0
    /\ UNCHANGED <<err, self_loop, repeated_edges, degree_sequence, degseq, edge_list>>
    /\ UNCHANGED <<sgVars, qVars>>
    /\ UNCHANGED <<argVars, graphVars, caller, chain_count, flower_count, btVars, connVars, loop_i>>

\* flower(point_count): tree(point_count, 0, 1), line 366
FlowerCall ==
    /\ pc = "call" /\ method = "flower"
    /\ pc' = "tree"
    /\ chain' = 0
    /\ flower' = Den
    /\ UNCHANGED <<err, self_loop, repeated_edges, degree_sequence, degseq, edge_list>>
    /\ UNCHANGED <<sgVars, qVars>>
    /\ UNCHANGED <<argVars, graphVars, caller, chain_count, flower_count, btVars, connVars, loop_i>>

\* lines 397-409
TreeStart ==
    /\ pc = "tree" \/ (pc = "call" /\ method = "tree")
    /\ IF ~(0 <= chain /\ chain <= Den) \/ ~(0 <= flower /\ flower <= Den)
       THEN GRaise("Exception")
       ELSE IF chain + flower > Den
       THEN GRaise("Exception")
       ELSE LET c == TreeCounts(point_count, chain, flower)
            IN /\ g_edges' = Graph(point_count)
               /\ g_directed' = TreeDirected
               /\ chain_count' = c[1]
               /\ flower_count' = c[2]
               /\ pc' = "tree_chain"
               /\ loop_i' = 2
               /\ UNCHANGED <<err, self_loop, repeated_edges, degree_sequence, degseq, edge_list>>
               /\ UNCHANGED <<sgVars, qVars>>
               /\ UNCHANGED <<argVars, chain, flower, caller, btVars, connVars>>

\* lines 411-412: for i in range(2, chain_count + 2)
TreeChain ==
    /\ pc = "tree_chain"
    /\ IF loop_i < chain_count + 2
       THEN /\ g_edges' = add_edge(g_edges, g_directed, loop_i - 1, loop_i)
            /\ loop_i' = loop_i + 1
            /\ pc' = pc
       ELSE /\ pc' = "tree_flower"
            /\ loop_i' = chain_count + 2
            /\ g_edges' = g_edges
    /\ UNCHANGED <<err, self_loop, repeated_edges, degree_sequence, degseq, edge_list>>
    /\ UNCHANGED <<sgVars, qVars>>
    /\ UNCHANGED <<argVars, g_directed, treeVars, btVars, connVars>>

\* lines 413-414: for i in range(chain_count + 2, chain_count + flower_count + 2)
TreeFlower ==
    /\ pc = "tree_flower"
    /\ IF loop_i < chain_count + flower_count + 2
       THEN /\ g_edges' = add_edge(g_edges, g_directed, 1, loop_i)
            /\ loop_i' = loop_i + 1
            /\ pc' = pc
       ELSE /\ pc' = "tree_random"
            /\ loop_i' = RandomStart(point_count, chain_count, flower_count)
            /\ g_edges' = g_edges
    /\ UNCHANGED <<err, self_loop, repeated_edges, degree_sequence, degseq, edge_list>>
    /\ UNCHANGED <<sgVars, qVars>>
    /\ UNCHANGED <<argVars, g_directed, treeVars, btVars, connVars>>

\* lines 415-419: for i in range(point_count - random_count + 1, point_count + 1),
\* u = random.randrange(1, i); then return graph
TreeRandom ==
    /\ pc = "tree_random"
    /\ IF loop_i < point_count + 1
       THEN /\ \E u \in 1..(loop_i - 1) :
                 g_edges' = add_edge(g_edges, g_directed, u, loop_i)
            /\ loop_i' = loop_i + 1
            /\ pc' = pc
       ELSE /\ pc' = IF caller = "none" THEN "done" ELSE "tree_returned"
            /\ UNCHANGED <<g_edges, loop_i>>
    /\ UNCHANGED <<err, self_loop, repeated_edges, degree_sequence, degseq, edge_list>>
    /\ UNCHANGED <<sgVars, qVars>>
    /\ UNCHANGED <<argVars, g_directed, treeVars, btVars, connVars>>

\* tree, chain or flower is called
InitTree ==
    /\ SGIdle /\ QIdle
    /\ pc = "call" /\ err = "none"
    /\ self_loop = FALSE /\ repeated_edges = FALSE
    /\ degree_sequence = <<>> /\ degseq = <<>> /\ edge_list = <<>>
    /\ method \in {"tree", "chain", "flower"}
    /\ point_count \in 1..MaxPoints
    /\ arg_directed \in BOOLEAN
    /\ chain \in (IF method = "tree" THEN -1..(Den + 1) ELSE {0})
    /\ flower \in (IF method = "tree" THEN -1..(Den + 1) ELSE {0})
    /\ edge_count_arg = 0 /\ left = 0 /\ right = 0 /\ loop = FALSE
    /\ caller = "none" /\ tree_count = 0 /\ tree_edges = <<>> /\ extraedg = 0 /\ n_iter = <<>>
    /\ g_directed = FALSE /\ g_edges = <<>>
    /\ loop_i = 0 /\ chain_count = 0 /\ flower_count = 0
    /\ can_left = <<>> /\ can_right = <<>>
    /\ used_edges = {} /\ edge_buf = <<>> /\ buf_pos = 0
    /\ lchild = {} /\ rchild = {}

NextTree == ChainCall \/ FlowerCall \/ TreeStart \/ TreeChain \/ TreeFlower \/ TreeRandom
SpecTree == InitTree /\ [][NextTree]_vars

\* ---- binary_tree

\* mutant: the last element is dropped, the chosen one stays
PopSwap_droplast(pool, point_index) == SubSeq(pool, 1, Len(pool) - 1)

\* lines 461-466: pop the last element and copy it over the chosen one
PopSwap(pool, point_index) ==
    LET del_last_node == pool[Len(pool)]
        rest == SubSeq(pool, 1, Len(pool) - 1)
    IN IF point_index < Len(rest)
       THEN [rest EXCEPT ![point_index + 1] = del_last_node]
       ELSE rest

\* line 457, with edge_pos in units of 1/(4*Den):
\* edge_pos < left or left + right < edge_pos <= (1.0 - left - right) / 2
GoesLeft(edge_pos) ==
    \/ edge_pos < 4 * left
    \/ 4 * (left + right) < edge_pos /\ edge_pos <= 2 * (Den - left - right)

\* lines 445-452
BinaryStart ==
    /\ pc = "call" /\ method = "binary_tree"
    /\ IF ~(0 <= left /\ left <= Den) \/ ~(0 <= right /\ right <= Den)
       THEN GRaise("Exception")
       ELSE IF left + right > Den
       THEN GRaise("Exception")
       ELSE /\ can_left' = <<1>>
            /\ can_right' = <<1>>
            /\ g_edges' = Graph(point_count)
            /\ g_directed' = arg_directed
            /\ loop_i' = 2
            /\ pc' = "binary_loop"
            /\ UNCHANGED <<err, self_loop, repeated_edges, degree_sequence, degseq, edge_list>>
            /\ UNCHANGED <<sgVars, qVars>>
            /\ UNCHANGED <<argVars, treeVars, lchild, rchild, connVars>>

\* lines 453-477, one iteration: edge_pos = random.random(), point_index = random.randint
BinaryStep ==
    /\ pc = "binary_loop"
    /\ loop_i < point_count + 1
    /\ \E edge_pos \in 0..(4 * Den - 1) :
          IF GoesLeft(edge_pos)
          THEN \E point_index \in 0..(Len(can_left) - 1) :
                  LET node == can_left[point_index + 1] IN
                  /\ g_edges' = add_edge(g_edges, g_directed, node, loop_i)
                  /\ can_left' = Append(PopSwap(can_left, point_index), loop_i)
                  /\ can_right' = Append(can_right, loop_i)
                  /\ lchild' = lchild \cup {<<node, loop_i>>}
                  /\ rchild' = rchild
          ELSE \E point_index \in 0..(Len(can_right) - 1) :
                  LET node == can_right[point_index + 1] IN
                  /\ g_edges' = add_edge(g_edges, g_directed, node, loop_i)
                  /\ can_right' = Append(PopSwap(can_right, point_index), loop_i)
                  /\ can_left' = Append(can_left, loop_i)
                  /\ rchild' = rchild \cup {<<node, loop_i>>}
                  /\ lchild' = lchild
    /\ loop_i' = loop_i + 1
    /\ UNCHANGED <<pc, err, self_loop, repeated_edges, degree_sequence, degseq, edge_list>>
    /\ UNCHANGED <<sgVars, qVars>>
    /\ UNCHANGED <<argVars, g_directed, treeVars, connVars>>

\* line 479
BinaryReturn ==
    /\ pc = "binary_loop"
    /\ ~(loop_i < point_count + 1)
    /\ pc' = "done"
    /\ UNCHANGED <<err, self_loop, repeated_edges, degree_sequence, degseq, edge_list>>
    /\ UNCHANGED <<sgVars, qVars>>
    /\ UNCHANGED grVars

\* binary_tree is called
InitBinaryTree ==
    /\ SGIdle /\ QIdle
    /\ pc = "call" /\ err = "none"
    /\ self_loop = FALSE /\ repeated_edges = FALSE
    /\ degree_sequence = <<>> /\ degseq = <<>> /\ edge_list = <<>>
    /\ method = "binary_tree"
    /\ point_count \in 1..MaxPoints
    /\ arg_directed \in BOOLEAN
    /\ left \in -1..(Den + 1)
    /\ right \in -1..(Den + 1)
    /\ edge_count_arg = 0 /\ chain = 0 /\ flower = 0 /\ loop = FALSE
    /\ caller = "none" /\ tree_count = 0 /\ tree_edges = <<>> /\ extraedg = 0 /\ n_iter = <<>>
    /\ g_directed = FALSE /\ g_edges = <<>>
    /\ loop_i = 0 /\ chain_count = 0 /\ flower_count = 0
    /\ can_left = <<>> /\ can_right = <<>>
    /\ used_edges = {} /\ edge_buf = <<>> /\ buf_pos = 0
    /\ lchild = {} /\ rchild = {}

NextBinaryTree == BinaryStart \/ BinaryStep \/ BinaryReturn
SpecBinaryTree == InitBinaryTree /\ [][NextBinaryTree]_vars

\* ---- DAG, UDAG, connected

\* mutant: self-loops are not counted
calc_max_edge_noloops(n, d, sl) ==
    IF ~d THEN (n * (n - 1)) \div 2 ELSE n * (n - 1)

\* lines 785-792
calc_max_edge(n, d, sl) ==
    LET m0 == n * (n - 1)
        m1 == IF ~d THEN m0 \div 2 ELSE m0
    IN IF sl THEN m1 + n ELSE m1

\* mutant: the extra edges are counted from point_count
ExtraStart_late(n) == n

\* lines 636 and 702: i = point_count - 1
ExtraStart(n) == n - 1

\* mutant: a pair (v, v) is never thrown away
DrawRejected_keeploops(u, v) ==
    ~repeated_edges /\ <<u, v>> \in used_edges

\* lines 644-645 / 707-708: the drawn pair is thrown away
DrawRejected(u, v) ==
    \/ ~self_loop /\ u = v
    \/ ~repeated_edges /\ <<u, v>> \in used_edges

\* connected(point_count, edge_count, directed), lines 729-732
ConnectedCall ==
    /\ pc = "call" /\ method = "connected"
    /\ pc' = IF arg_directed THEN "DAG" ELSE "UDAG"
    /\ UNCHANGED <<err, self_loop, repeated_edges, degree_sequence, degseq, edge_list>>
    /\ UNCHANGED <<sgVars, qVars>>
    /\ UNCHANGED grVars

\* lines 601-625, up to the call of tree
DAGStart ==
    /\ pc = "DAG" \/ (pc = "call" /\ method = "DAG")
    /\ IF edge_count_arg < point_count - 1
       THEN GRaise("Exception")
       ELSE IF ~repeated_edges
               /\ edge_count_arg > calc_max_edge(point_count, ~loop, self_loop)
       THEN GRaise("Exception")
       ELSE /\ used_edges' = {}
            /\ caller' = "DAG"
            /\ chain' = 0
            /\ flower' = 0
            /\ pc' = "tree"
            /\ UNCHANGED <<err, self_loop, repeated_edges, degree_sequence, degseq, edge_list>>
            /\ UNCHANGED <<sgVars, qVars>>
            /\ UNCHANGED <<argVars, graphVars, chain_count, flower_count, btVars,
                           edge_buf, buf_pos, loop_i, tree_edges>>

\* lines 624-626: edge_buf = list(tree.iterate_edges()); graph = Graph(point_count, True)
DAGTreeDone ==
    /\ pc = "tree_returned" /\ caller = "DAG"
    /\ edge_buf' = iterate_edges(g_edges, g_directed)
    /\ g_edges' = Graph(point_count)
    /\ g_directed' = TRUE
    /\ buf_pos' = 1
    /\ pc' = "DAG_orient"
    /\ UNCHANGED <<err, self_loop, repeated_edges, degree_sequence, degseq, edge_list>>
    /\ UNCHANGED <<sgVars, qVars>>
    /\ UNCHANGED <<argVars, treeVars, btVars, used_edges, loop_i, tree_edges>>

\* lines 628-636: for edge in edge_buf, flipped when loop and random.randint(1, 2) == 1
DAGOrient ==
    /\ pc = "DAG_orient"
    /\ IF buf_pos <= Len(edge_buf)
       THEN /\ \E flip \in (IF loop THEN BOOLEAN ELSE {FALSE}) :
                 LET e == edge_buf[buf_pos]
                     edge == IF flip THEN <<e[2], e[1]>> ELSE e
                 IN /\ edge_buf' = [edge_buf EXCEPT ![buf_pos] = edge]
                    /\ g_edges' = add_edge(g_edges, g_directed, edge[1], edge[2])
                    /\ used_edges' = IF ~repeated_edges THEN used_edges \cup {edge}
                                     ELSE used_edges
            /\ buf_pos' = buf_pos + 1
            /\ UNCHANGED <<pc, loop_i>>
       ELSE /\ pc' = "DAG_extra"
            /\ loop_i' = ExtraStart(point_count)
            /\ UNCHANGED <<edge_buf, g_edges, used_edges, buf_pos>>
    /\ UNCHANGED <<err, self_loop, repeated_edges, degree_sequence, degseq, edge_list>>
    /\ UNCHANGED <<sgVars, qVars>>
    /\ UNCHANGED <<argVars, g_directed, treeVars, btVars, tree_edges>>

\* lines 637-656: one draw of the rejection loop, or the return
DAGExtra ==
    /\ pc = "DAG_extra"
    /\ IF loop_i < edge_count_arg
       THEN \E u0 \in 1..point_count, v0 \in 1..point_count :
               LET u == IF ~loop /\ u0 > v0 THEN v0 ELSE u0
                   v == IF ~loop /\ u0 > v0 THEN u0 ELSE v0
               IN IF DrawRejected(u, v)
                  THEN UNCHANGED <<g_edges, used_edges, loop_i, pc>>
                  ELSE /\ g_edges' = add_edge(g_edges, g_directed, u, v)
                       /\ used_edges' = IF ~repeated_edges THEN used_edges \cup {<<u, v>>}
                                        ELSE used_edges
                       /\ loop_i' = loop_i + 1
                       /\ pc' = pc
       ELSE /\ pc' = "done"
            /\ UNCHANGED <<g_edges, used_edges, loop_i>>
    /\ UNCHANGED <<err, self_loop, repeated_edges, degree_sequence, degseq, edge_list>>
    /\ UNCHANGED <<sgVars, qVars>>
    /\ UNCHANGED <<argVars, g_directed, treeVars, btVars, edge_buf, buf_pos, tree_edges>>

\* lines 673-695, up to the call of tree
UDAGStart ==
    /\ pc = "UDAG" \/ (pc = "call" /\ method = "UDAG")
    /\ IF edge_count_arg < point_count - 1
       THEN GRaise("Exception")
       ELSE IF ~repeated_edges
               /\ edge_count_arg > calc_max_edge(point_count, FALSE, self_loop)
       THEN GRaise("Exception")
       ELSE /\ used_edges' = {}
            /\ caller' = "UDAG"
            /\ chain' = 0
            /\ flower' = 0
            /\ pc' = "tree"
            /\ UNCHANGED <<err, self_loop, repeated_edges, degree_sequence, degseq, edge_list>>
            /\ UNCHANGED <<sgVars, qVars>>
            /\ UNCHANGED <<argVars, graphVars, chain_count, flower_count, btVars,
                           edge_buf, buf_pos, loop_i, tree_edges>>

\* lines 695-702: the tree is the graph; its edges are marked used in both directions
UDAGTreeDone ==
    /\ pc = "tree_returned" /\ caller = "UDAG"
    /\ used_edges' =
          IF ~repeated_edges
          THEN LET L == iterate_edges(g_edges, g_directed)
               IN used_edges \cup {L[k] : k \in 1..Len(L)}
                             \cup {<<L[k][2], L[k][1]>> : k \in 1..Len(L)}
          ELSE used_edges
    /\ loop_i' = ExtraStart(point_count)
    /\ pc' = "UDAG_extra"
    /\ UNCHANGED <<err, self_loop, repeated_edges, degree_sequence, degseq, edge_list>>
    /\ UNCHANGED <<sgVars, qVars>>
    /\ UNCHANGED <<argVars, graphVars, treeVars, btVars, edge_buf, buf_pos, tree_edges>>

\* lines 703-720: one draw of the rejection loop, or the return
UDAGExtra ==
    /\ pc = "UDAG_extra"
    /\ IF loop_i < edge_count_arg
       THEN \E u \in 1..point_count, v \in 1..point_count :
               IF DrawRejected(u, v)
               THEN UNCHANGED <<g_edges, used_edges, loop_i, pc>>
               ELSE /\ g_edges' = add_edge(g_edges, g_directed, u, v)
                    /\ used_edges' = IF ~repeated_edges
                                     THEN used_edges \cup {<<u, v>>, <<v, u>>}
                                     ELSE used_edges
                    /\ loop_i' = loop_i + 1
                    /\ pc' = pc
       ELSE /\ pc' = "done"
            /\ UNCHANGED <<g_edges, used_edges, loop_i>>
    /\ UNCHANGED <<err, self_loop, repeated_edges, degree_sequence, degseq, edge_list>>
    /\ UNCHANGED <<sgVars, qVars>>
    /\ UNCHANGED <<argVars, g_directed, treeVars, btVars, edge_buf, buf_pos, tree_edges>>

\* DAG, UDAG or connected is called
InitConnected ==
    /\ SGIdle /\ QIdle
    /\ pc = "call" /\ err = "none"
    /\ self_loop \in BOOLEAN /\ repeated_edges \in BOOLEAN
    /\ degree_sequence = <<>> /\ degseq = <<>> /\ edge_list = <<>>
    /\ method \in {"DAG", "UDAG", "connected"}
    /\ point_count \in 1..MaxConnPoints
    /\ edge_count_arg \in 0..MaxEdgeCount
    /\ arg_directed \in (IF method = "connected" THEN BOOLEAN ELSE {FALSE})
    /\ loop \in (IF method = "UDAG" THEN {FALSE} ELSE BOOLEAN)
    /\ left = 0 /\ right = 0 /\ chain = 0 /\ flower = 0
    /\ caller = "none" /\ tree_count = 0 /\ tree_edges = <<>> /\ extraedg = 0 /\ n_iter = <<>>
    /\ g_directed = FALSE /\ g_edges = <<>>
    /\ loop_i = 0 /\ chain_count = 0 /\ flower_count = 0
    /\ can_left = <<>> /\ can_right = <<>>
    /\ used_edges = {} /\ edge_buf = <<>> /\ buf_pos = 0
    /\ lchild = {} /\ rchild = {}

NextConnected ==
    \/ ConnectedCall
    \/ DAGStart \/ DAGTreeDone \/ DAGOrient \/ DAGExtra
    \/ UDAGStart \/ UDAGTreeDone \/ UDAGExtra
    \/ TreeStart \/ TreeChain \/ TreeFlower \/ TreeRandom
SpecConnected == InitConnected /\ [][NextConnected]_vars

\* ---- forest

\* mutant: one edge fewer is kept
SampleSize_short(len, k) == len - k

\* line 833: len(tree_edges) - tree_count + 1
SampleSize(len, k) == len - k + 1

\* random.sample(L, m): every list of m entries of L taken at distinct positions
Samples(L, m) ==
    {[j \in 1..m |-> L[f[j]]] :
        f \in {g \in [1..m -> 1..Len(L)] :
                  \A a \in 1..m, b \in 1..m : a # b => g[a] # g[b]}}

\* lines 828-830, up to the call of tree(point_count, **kwargs)
ForestStart ==
    /\ pc = "call" /\ method = "forest"
    /\ IF tree_count <= 0 \/ tree_count > point_count
       THEN GRaise("ValueError")
       ELSE /\ caller' = "forest"
            /\ pc' = "tree"
            /\ UNCHANGED <<err, self_loop, repeated_edges, degree_sequence, degseq, edge_list>>
            /\ UNCHANGED <<sgVars, qVars>>
            /\ UNCHANGED <<argVars, graphVars, chain, flower, chain_count, flower_count,
                           btVars, connVars, loop_i>>

\* lines 831-833: tree_edges, result = Graph(point_count, tree.directed), need_add
ForestSample ==
    /\ pc = "tree_returned" /\ caller = "forest"
    /\ tree_edges' = iterate_edges(g_edges, g_directed)
    /\ edge_buf' \in Samples(tree_edges', SampleSize(Len(tree_edges'), tree_count))
    /\ g_edges' = Graph(point_count)
    /\ buf_pos' = 1
    /\ pc' = "forest_add"
    /\ UNCHANGED <<err, self_loop, repeated_edges, degree_sequence, degseq, edge_list>>
    /\ UNCHANGED <<sgVars, qVars>>
    /\ UNCHANGED <<argVars, g_directed, treeVars, btVars, used_edges, loop_i>>

\* lines 834-836: for edge in need_add: result.add_edge(...); return result
ForestAdd ==
    /\ pc = "forest_add"
    /\ IF buf_pos <= Len(edge_buf)
       THEN /\ g_edges' = add_edge(g_edges, g_directed,
                                   edge_buf[buf_pos][1], edge_buf[buf_pos][2])
            /\ buf_pos' = buf_pos + 1
            /\ pc' = pc
       ELSE /\ pc' = "done"
            /\ UNCHANGED <<g_edges, buf_pos>>
    /\ UNCHANGED <<err, self_loop, repeated_edges, degree_sequence, degseq, edge_list>>
    /\ UNCHANGED <<sgVars, qVars>>
    /\ UNCHANGED <<argVars, g_directed, treeVars, btVars, used_edges, edge_buf,
                   tree_edges, loop_i>>

\* forest(point_count, tree_count, chain=, flower=, directed=) is called
InitForest ==
    /\ SGIdle /\ QIdle
    /\ pc = "call" /\ err = "none"
    /\ self_loop = FALSE /\ repeated_edges = FALSE
    /\ degree_sequence = <<>> /\ degseq = <<>> /\ edge_list = <<>>
    /\ method = "forest"
    /\ point_count \in 0..MaxPoints
    /\ tree_count \in -1..(MaxPoints + 1)
    /\ arg_directed \in BOOLEAN
    /\ chain \in 0..Den
    /\ flower \in 0..(Den - chain)
    /\ edge_count_arg = 0 /\ left = 0 /\ right = 0 /\ loop = FALSE
    /\ caller = "none" /\ tree_edges = <<>> /\ extraedg = 0 /\ n_iter = <<>>
    /\ g_directed = FALSE /\ g_edges = <<>>
    /\ loop_i = 0 /\ chain_count = 0 /\ flower_count = 0
    /\ can_left = <<>> /\ can_right = <<>>
    /\ used_edges = {} /\ edge_buf = <<>> /\ buf_pos = 0
    /\ lchild = {} /\ rchild = {}

NextForest ==
    \/ ForestStart \/ ForestSample \/ ForestAdd
    \/ TreeStart \/ TreeChain \/ TreeFlower \/ TreeRandom
SpecForest == InitForest /\ [][NextForest]_vars

\* ---- graph

\* lines 497-515: validation, then graph = Graph(point_count, directed), i = 0
GraphStart ==
    /\ pc = "call" /\ method = "graph"
    /\ IF ~repeated_edges
          /\ edge_count_arg > calc_max_edge(point_count, arg_directed, self_loop)
       THEN GRaise("Exception")
       ELSE /\ g_edges' = Graph(point_count)
            /\ g_directed' = arg_directed
            /\ used_edges' = {}
            /\ loop_i' = 0
            /\ pc' = "graph_loop"
            /\ UNCHANGED <<err, self_loop, repeated_edges, degree_sequence, degseq, edge_list>>
            /\ UNCHANGED <<sgVars, qVars>>
            /\ UNCHANGED <<argVars, treeVars, btVars, edge_buf, buf_pos, tree_edges>>

\* lines 516-533: one draw of the rejection loop (random.randint(1, 0) raises
\* ValueError), or the return
GraphStep ==
    /\ pc = "graph_loop"
    /\ IF loop_i < edge_count_arg
       THEN IF point_count < 1
            THEN GRaise("ValueError")
            ELSE /\ \E u \in 1..point_count, v \in 1..point_count :
                      IF DrawRejected(u, v)
                      THEN UNCHANGED <<g_edges, used_edges, loop_i>>
                      ELSE /\ g_edges' = add_edge(g_edges, g_directed, u, v)
                           /\ used_edges' =
                                 IF ~repeated_edges
                                 THEN used_edges \cup {<<u, v>>}
                                      \cup (IF ~g_directed THEN {<<v, u>>} ELSE {})
                                 ELSE used_edges
                           /\ loop_i' = loop_i + 1
                 /\ UNCHANGED <<pc, err, self_loop, repeated_edges, degree_sequence,
                                degseq, edge_list>>
                 /\ UNCHANGED <<sgVars, qVars>>
                 /\ UNCHANGED <<argVars, g_directed, treeVars, btVars, edge_buf, buf_pos,
                                tree_edges>>
       ELSE /\ pc' = "done"
            /\ UNCHANGED <<err, self_loop, repeated_edges, degree_sequence, degseq, edge_list>>
            /\ UNCHANGED <<sgVars, qVars>>
            /\ UNCHANGED grVars

\* graph(point_count, edge_count, ...) or UDAG(point_count, edge_count, ...) is called
InitGraph ==
    /\ SGIdle /\ QIdle
    /\ pc = "call" /\ err = "none"
    /\ self_loop \in BOOLEAN /\ repeated_edges \in BOOLEAN
    /\ degree_sequence = <<>> /\ degseq = <<>> /\ edge_list = <<>>
    /\ method \in {"graph", "UDAG"}
    /\ point_count \in (IF method = "graph" THEN 0..MaxConnPoints ELSE 1..MaxConnPoints)
    /\ edge_count_arg \in 0..MaxEdgeCount
    /\ arg_directed \in (IF method = "graph" THEN BOOLEAN ELSE {FALSE})
    /\ loop = FALSE
    /\ left = 0 /\ right = 0 /\ chain = 0 /\ flower = 0
    /\ caller = "none" /\ tree_count = 0 /\ tree_edges = <<>> /\ extraedg = 0 /\ n_iter = <<>>
    /\ g_directed = FALSE /\ g_edges = <<>>
    /\ loop_i = 0 /\ chain_count = 0 /\ flower_count = 0
    /\ can_left = <<>> /\ can_right = <<>>
    /\ used_edges = {} /\ edge_buf = <<>> /\ buf_pos = 0
    /\ lchild = {} /\ rchild = {}

NextGraph ==
    \/ GraphStart \/ GraphStep
    \/ UDAGStart \/ UDAGTreeDone \/ UDAGExtra
    \/ TreeStart \/ TreeChain \/ TreeFlower \/ TreeRandom
SpecGraph == InitGraph /\ [][NextGraph]_vars

\* ---- graph, DAG and UDAG run to their end

\* graph, DAG or UDAG is called with point_count >= 1
InitTerminate ==
    /\ SGIdle /\ QIdle
    /\ pc = "call" /\ err = "none"
    /\ self_loop \in BOOLEAN /\ repeated_edges \in BOOLEAN
    /\ degree_sequence = <<>> /\ degseq = <<>> /\ edge_list = <<>>
    /\ method \in {"graph", "DAG", "UDAG"}
    /\ point_count \in 1..MaxConnPoints
    /\ edge_count_arg \in 0..MaxEdgeCount
    /\ arg_directed \in (IF method = "graph" THEN BOOLEAN ELSE {FALSE})
    /\ loop \in (IF method = "DAG" THEN BOOLEAN ELSE {FALSE})
    /\ left = 0 /\ right = 0 /\ chain = 0 /\ flower = 0
    /\ caller = "none" /\ tree_count = 0 /\ tree_edges = <<>> /\ extraedg = 0 /\ n_iter = <<>>
    /\ g_directed = FALSE /\ g_edges = <<>>
    /\ loop_i = 0 /\ chain_count = 0 /\ flower_count = 0
    /\ can_left = <<>> /\ can_right = <<>>
    /\ used_edges = {} /\ edge_buf = <<>> /\ buf_pos = 0
    /\ lchild = {} /\ rchild = {}

NextTerminate ==
    \/ GraphStart \/ GraphStep
    \/ DAGStart \/ DAGTreeDone \/ DAGOrient \/ DAGExtra
    \/ UDAGStart \/ UDAGTreeDone \/ UDAGExtra
    \/ TreeStart \/ TreeChain \/ TreeFlower \/ TreeRandom

\* The call runs on while it can: every statement that can execute does, and a
\* rejection loop for which some draw is accepted eventually makes that draw
\* (every vertex pair is drawn infinitely often). A loop that rejects every
\* pair only repeats its state.
SpecTerminate == InitTerminate /\ [][NextTerminate]_vars /\ WF_vars(NextTerminate)

\* ---- from_degree_sequence

\* the default of the argument iter_limit, int(1e6)
iter_limit == 1000000

\* math.comb(n, k), the number whose logarithm _estimate_comb sums up
RECURSIVE Binomial(_, _)
Binomial(n, k) == IF k = 0 THEN 1 ELSE (Binomial(n - 1, k - 1) * n) \div k

\* _estimate_comb, lines 793-799, as exp of the float returned: math.log of a
\* number <= 0 raises ValueError, which makes the result 0.0 = log(1)
estimate_comb(n, k) == IF k <= n THEN Binomial(n, k) ELSE 1

\* _estimate_upperbound, lines 801-818, as exp of the float returned
estimate_upperbound(n, k, d, sl, re) ==
    LET tot0 == IF d THEN n * (n - 1) ELSE (n * (n - 1)) \div 2
        tot_edge == IF sl THEN tot0 + n ELSE tot0
    IN IF re THEN estimate_comb(k + tot_edge - 1, k) ELSE estimate_comb(tot_edge, k)

\* int(log(c) / log(b)) for b >= 2, c >= 1: the largest t with b^t <= c
RECURSIVE FloorLog(_, _)
FloorLog(b, c) == IF c < b THEN 0 ELSE 1 + FloorLog(b, c \div b)

\* for edge in sg.get_edges(): g.add_edge(*edge, ...), lines 581-582
RECURSIVE AddAll(_, _, _)
AddAll(G, d, L) ==
    IF L = <<>> THEN G ELSE AddAll(add_edge(G, d, L[1][1], L[1][2]), d, Tail(L))

\* lines 546-566: the empty sequence returns Graph(0); otherwise the type of
\* the first entry chooses the realisation (directed holds from the start
\* whether the entries are pairs, the test isinstance(degree_sequence[0], int))
FdsStart ==
    /\ pc = "call" /\ method = "from_degree_sequence"
    /\ IF Len(degree_sequence) = 0
       THEN /\ pc' = "done"
            /\ g_edges' = Graph(0)
            /\ g_directed' = FALSE
       ELSE /\ pc' = "realize"
            /\ UNCHANGED graphVars
    /\ UNCHANGED sgVars
    /\ UNCHANGED <<degree_sequence, self_loop, repeated_edges, degseq, edge_list, err>>
    /\ UNCHANGED <<argVars, treeVars, btVars, connVars, loop_i, qVars>>

\* lines 567-577: edge_cnt = sg.edge_count(); an omitted n_iter is estimated,
\* math.log(0) raises ValueError and dividing by math.log(1) ZeroDivisionError
FdsEstimate ==
    /\ pc = "realized"
    /\ LET point_cnt == Len(degree_sequence)
           edge_cnt == edge_count(edges, directed)
           est == FloorLog(edge_cnt, estimate_upperbound(point_cnt, edge_cnt, directed,
                                                         self_loop, repeated_edges))
       IN IF n_iter = <<>> /\ edge_cnt = 0
          THEN GRaise("math domain error")
          ELSE IF n_iter = <<>> /\ edge_cnt = 1
          THEN GRaise("ZeroDivisionError")
          ELSE /\ n_iter' = IF n_iter = <<>>
                            THEN <<IF est < iter_limit THEN est ELSE iter_limit>>
                            ELSE <<IF n_iter[1] < iter_limit THEN n_iter[1] ELSE iter_limit>>
               /\ loop_i' = 0
               /\ pc' = "switching"
               /\ UNCHANGED <<method, point_count, edge_count_arg, arg_directed, left, right,
                              loop, tree_count, extraedg>>
               /\ UNCHANGED <<graphVars, treeVars, btVars, connVars>>
               /\ UNCHANGED <<degree_sequence, self_loop, repeated_edges, degseq, edge_list, err>>
               /\ UNCHANGED <<sgVars, qVars>>

\* lines 578-579: one sg.switch(...); random.choices of an empty list raises IndexError
FdsSwitch ==
    /\ pc = "switching" /\ loop_i < n_iter[1]
    /\ IF DOMAIN edges = {}
       THEN GRaise("IndexError")
       ELSE /\ \E first \in {k \in DOMAIN edges : edges[k] > 0},
                  second \in {k \in DOMAIN edges : edges[k] > 0} :
                  LET r == switch(edges, directed, self_loop, repeated_edges, first, second)
                  IN /\ ret' = r[1]
                     /\ edges' = r[2]
            /\ op' = "switch"
            /\ loop_i' = loop_i + 1
            /\ UNCHANGED <<directed, phase, edges0, removedAbsent>>
            /\ UNCHANGED <<dsVars, qVars>>
            /\ UNCHANGED <<argVars, graphVars, treeVars, btVars, connVars>>

\* lines 580-583: the graph is built from sg.get_edges() and returned
FdsBuild ==
    /\ pc = "switching" /\ loop_i >= n_iter[1]
    /\ g_directed' = directed
    /\ g_edges' = AddAll(Graph(Len(degree_sequence)), directed, get_edges(edges, directed))
    /\ pc' = "done"
    /\ UNCHANGED <<degree_sequence, self_loop, repeated_edges, degseq, edge_list, err>>
    /\ UNCHANGED <<sgVars, qVars>>
    /\ UNCHANGED <<argVars, treeVars, btVars, connVars, loop_i>>

InitFromDegree ==
    /\ directed \in BOOLEAN
    /\ edges = EmptyCounter
    /\ phase = "ctor"
    /\ edges0 = EmptyCounter
    /\ op = "init"
    /\ ret = FALSE
    /\ removedAbsent = FALSE
    /\ QIdle
    /\ pc = "call" /\ err = "none"
    /\ degree_sequence \in (IF directed THEN DirSeqs ELSE UndirSeqs)
    /\ self_loop \in BOOLEAN
    /\ repeated_edges \in BOOLEAN
    /\ degseq = <<>> /\ edge_list = <<>>
    /\ method = "from_degree_sequence"
    /\ n_iter \in {<<>>} \cup {<<k>> : k \in 0..MaxIter}
    /\ point_count = 0 /\ edge_count_arg = 0 /\ arg_directed = FALSE /\ loop = FALSE
    /\ left = 0 /\ right = 0 /\ chain = 0 /\ flower = 0
    /\ caller = "none" /\ tree_count = 0 /\ tree_edges = <<>> /\ extraedg = 0
    /\ g_directed = FALSE /\ g_edges = <<>>
    /\ loop_i = 0 /\ chain_count = 0 /\ flower_count = 0
    /\ can_left = <<>> /\ can_right = <<>>
    /\ used_edges = {} /\ edge_buf = <<>> /\ buf_pos = 0
    /\ lchild = {} /\ rchild = {}

NextFromDegree ==
    \/ FdsStart
    \/ DirectedStart \/ DirectedRound \/ DirectedReturn
    \/ UndirectedStart \/ UndirectedRound \/ UndirectedReturn
    \/ FdsEstimate \/ FdsSwitch \/ FdsBuild
SpecFromDegree == InitFromDegree /\ [][NextFromDegree]_vars

\* ---- hack_spfa

\* lines 757-760, doubled: point_count + 3, or point_count / 2 + 1 when odd
PointToSkip2(n) == IF n % 2 = 1 THEN n + 2 ELSE 2 * (n + 3)

\* line 761: int(point_count / 2)
Half(n) == n \div 2

\* x + (x >= point_to_skip)
Skip(x, n) == IF 2 * x >= PointToSkip2(n) THEN x + 1 ELSE x

\* mutant: the two paths stop one step early
PathLast_short(h) == h - 2

\* line 763: the last i of range(1, half)
PathLast(h) == h - 1

\* lines 749-761: graph = Graph(point_count, directed)
SpfaStart ==
    /\ pc = "call" /\ method = "hack_spfa"
    /\ g_edges' = Graph(point_count)
    /\ g_directed' = arg_directed
    /\ loop_i' = 1
    /\ pc' = "spfa_paths"
    /\ UNCHANGED <<err, self_loop, repeated_edges, degree_sequence, degseq, edge_list>>
    /\ UNCHANGED <<sgVars, qVars>>
    /\ UNCHANGED <<argVars, treeVars, btVars, connVars>>

\* lines 763-771: for i in range(1, half), an edge on each of the two paths
SpfaPaths ==
    /\ pc = "spfa_paths"
    /\ IF loop_i <= PathLast(Half(point_count))
       THEN LET n == point_count
                half == Half(n)
                G1 == add_edge(g_edges, g_directed, Skip(loop_i, n), Skip(loop_i + 1, n))
            IN /\ g_edges' = add_edge(G1, g_directed, Skip(loop_i + half, n),
                                      Skip(loop_i + half + 1, n))
               /\ loop_i' = loop_i + 1
               /\ pc' = pc
       ELSE /\ pc' = "spfa_cross"
            /\ loop_i' = 1
            /\ g_edges' = g_edges
    /\ UNCHANGED <<err, self_loop, repeated_edges, degree_sequence, degseq, edge_list>>
    /\ UNCHANGED <<sgVars, qVars>>
    /\ UNCHANGED <<argVars, g_directed, treeVars, btVars, connVars>>

\* lines 772-776: for i in range(1, half + 1), the edge (i, i + half)
SpfaCross ==
    /\ pc = "spfa_cross"
    /\ IF loop_i <= Half(point_count)
       THEN /\ g_edges' = add_edge(g_edges, g_directed, Skip(loop_i, point_count),
                                   Skip(loop_i + Half(point_count), point_count))
            /\ loop_i' = loop_i + 1
            /\ pc' = pc
       ELSE /\ pc' = "spfa_extra"
            /\ loop_i' = 0
            /\ g_edges' = g_edges
    /\ UNCHANGED <<err, self_loop, repeated_edges, degree_sequence, degseq, edge_list>>
    /\ UNCHANGED <<sgVars, qVars>>
    /\ UNCHANGED <<argVars, g_directed, treeVars, btVars, connVars>>

\* lines 778-783: for i in range(extraedg), a random edge; then return graph
SpfaExtra ==
    /\ pc = "spfa_extra"
    /\ IF loop_i < extraedg
       THEN IF point_count < 1
            THEN GRaise("ValueError")
            ELSE /\ \E u \in 1..point_count, v \in 1..point_count :
                      g_edges' = add_edge(g_edges, g_directed, u, v)
                 /\ loop_i' = loop_i + 1
                 /\ UNCHANGED <<pc, err, self_loop, repeated_edges, degree_sequence,
                                degseq, edge_list>>
                 /\ UNCHANGED <<sgVars, qVars>>
                 /\ UNCHANGED <<argVars, g_directed, treeVars, btVars, connVars>>
       ELSE /\ pc' = "done"
            /\ UNCHANGED <<err, self_loop, repeated_edges, degree_sequence, degseq, edge_list>>
            /\ UNCHANGED <<sgVars, qVars>>
            /\ UNCHANGED grVars

\* hack_spfa(point_count, extra_edge=, directed=) is called
InitSpfa ==
    /\ SGIdle /\ QIdle
    /\ pc = "call" /\ err = "none"
    /\ self_loop = FALSE /\ repeated_edges = FALSE
    /\ degree_sequence = <<>> /\ degseq = <<>> /\ edge_list = <<>>
    /\ method = "hack_spfa"
    /\ point_count \in 0..MaxSpfaPoints
    /\ extraedg \in 0..MaxExtra
    /\ arg_directed \in BOOLEAN
    /\ edge_count_arg = 0 /\ loop = FALSE
    /\ left = 0 /\ right = 0 /\ chain = 0 /\ flower = 0
    /\ caller = "none" /\ tree_count = 0 /\ tree_edges = <<>> /\ n_iter = <<>>
    /\ g_directed = FALSE /\ g_edges = <<>>
    /\ loop_i = 0 /\ chain_count = 0 /\ flower_count = 0
    /\ can_left = <<>> /\ can_right = <<>>
    /\ used_edges = {} /\ edge_buf = <<>> /\ buf_pos = 0
    /\ lchild = {} /\ rchild = {}

NextSpfa == SpfaStart \/ SpfaPaths \/ SpfaCross \/ SpfaExtra
SpecSpfa == InitSpfa /\ [][NextSpfa]_vars

\* ---- RangeQuery.get_one_query

\* the values an entry of position_range takes: x, [x] or (lo, hi)
RangeEntries ==
    {<<"int", x>> : x \in 0..MaxPos}
    \cup {<<"list", <<x>>>> : x \in 0..MaxPos}
    \cup {<<"list", <<lo, hi>>>> : lo \in 0..MaxPos, hi \in 0..MaxPos}

\* lines 115-120
CurRange(entry) ==
    IF entry[1] = "int" THEN <<1, entry[2]>>
    ELSE IF Len(entry[2]) = 1 THEN <<1, entry[2][1]>>
    ELSE entry[2]

\* lines 131-135: random.sample(range(lo, hi + 1), 2), or two random.randint(lo, hi)
Draws(m, lo, hi) ==
    IF m = "less"
    THEN {d \in (lo..hi) \X (lo..hi) : d[1] # d[2]}
    ELSE (lo..hi) \X (lo..hi)

\* mutant: the pair is kept as drawn
OrderPair_asdrawn(l, r) == <<l, r>>

\* lines 136-137
OrderPair(l, r) == IF l > r THEN <<r, l>> ELSE <<l, r>>

\* lines 113-140: one pass of "for i in range(dimension)", or the return
QueryStep ==
    /\ pc = "query_loop"
    /\ IF dim_i < Len(position_range)
       THEN LET cur_range == CurRange(position_range[dim_i + 1])
            IN IF cur_range[1] > cur_range[2]
                  \/ (mode = "less" /\ cur_range[1] = cur_range[2])
               THEN /\ pc' = "error"
                    /\ err' = "ValueError"
                    /\ UNCHANGED <<query_l, query_r, dim_i>>
               ELSE /\ \E d \in Draws(mode, cur_range[1], cur_range[2]) :
                         /\ query_l' = Append(query_l, OrderPair(d[1], d[2])[1])
                         /\ query_r' = Append(query_r, OrderPair(d[1], d[2])[2])
                    /\ dim_i' = dim_i + 1
                    /\ UNCHANGED <<pc, err>>
       ELSE /\ pc' = "done"
            /\ UNCHANGED <<err, query_l, query_r, dim_i>>
    /\ UNCHANGED <<position_range, mode>>
    /\ UNCHANGED <<self_loop, repeated_edges, degree_sequence, degseq, edge_list>>
    /\ UNCHANGED <<sgVars, grVars>>

\* get_one_query(position_range, mode) is called
InitQuery ==
    /\ SGIdle /\ GRIdle
    /\ pc = "query_loop" /\ err = "none"
    /\ self_loop = FALSE /\ repeated_edges = FALSE
    /\ degree_sequence = <<>> /\ degseq = <<>> /\ edge_list = <<>>
    /\ \E n \in 0..MaxDim : position_range \in [1..n -> RangeEntries]
    /\ mode \in {"less", "allow_equal"}
    /\ query_l = <<>> /\ query_r = <<>> /\ dim_i = 0

NextQuery == QueryStep
SpecQuery == InitQuery /\ [][NextQuery]_vars

\* ------------------------------------------------------------ degrees
OutDeg(E, v) == SumOver(E, {k \in DOMAIN E : k[1] = v})
InDeg(E, v) == SumOver(E, {k \in DOMAIN E : k[2] = v})
\* undirected degree: every stored (v, w) once, and the self-loop (v, v) a second time
Degree(E, v) == SumOver(E, {k \in DOMAIN E : k[1] = v}) + Cnt(E, <<v, v>>)

SameDegrees(E, F, d) ==
    \A v \in Vertex :
        IF d THEN OutDeg(E, v) = OutDeg(F, v) /\ InDeg(E, v) = InDeg(F, v)
        ELSE Degree(E, v) = Degree(F, v)

\* ------------------------------------------------------------ claims on SwitchGraph

\* C1: after any number of switch calls (accepted or rejected, any flags) on a
\* constructed SwitchGraph, every vertex's out- and in-degree (directed) or degree
\* (undirected, a self-loop counted as 2) equals its value before the first call.
C1_DegreesPreserved == phase = "ready" => SameDegrees(edges, edges0, directed)

\* an accepted switch on an undirected graph has produced a self-loop that was not there
C1_Witness ==
    /\ phase = "ready" /\ op = "switch" /\ ret /\ ~directed
    /\ \E v \in Vertex : <<v, v>> \in DOMAIN edges /\ <<v, v>> \notin DOMAIN edges0

\* C2: a switch call that returns False leaves the stored multiset, and so
\* get_edges(), exactly as it was before the call.
C2_RejectedSwitchNoMutation ==
    [][(op' = "switch" /\ ret' = FALSE) =>
          (edges' = edges /\ get_edges(edges', directed') = get_edges(edges, directed))]_vars

\* a switch was rejected on a graph with at least two distinct stored pairs
C2_Witness ==
    /\ phase = "ready" /\ op = "switch" /\ ret = FALSE
    /\ Cardinality(DOMAIN edges) >= 2

\* C6: every stored multiplicity is at least 1, an undirected graph stores (u, v)
\* and (v, u) with equal multiplicity, and switch never calls remove on a pair
\* that is not stored.
C6_MultisetInvariant ==
    /\ \A k \in DOMAIN edges : edges[k] >= 1
    /\ ~directed => \A u \in Vertex, v \in Vertex :
                        Cnt(edges, <<u, v>>) = Cnt(edges, <<v, u>>)
    /\ ~removedAbsent

\* an accepted switch on an undirected graph purged a key that was stored before it
C6_Witness ==
    /\ phase = "ready" /\ op = "switch" /\ ret /\ ~directed
    /\ \E k \in DOMAIN edges0 : k \notin DOMAIN edges

\* C7: edge_count() equals the length of get_edges(), for directed and undirected
\* graphs alike.
C7_EdgeCountIsLenGetEdges ==
    edge_count(edges, directed) = Len(get_edges(edges, directed))

\* ------------------------------------------------------------ claims on realisation
Returned == pc = "done"

\* C3 as stated: in a returned directed multiset vertex i has out-degree equal to
\* the first component of the i-th pair and in-degree equal to the second.
C3_OutFirstInSecond ==
    (Returned /\ directed) =>
        \A i \in 1..Len(degree_sequence) :
            /\ OutDeg(edges, i) = degree_sequence[i][1]
            /\ InDeg(edges, i) = degree_sequence[i][2]

\* C3 amended: in a returned directed multiset the number of arcs entering vertex i
\* equals the first component of the i-th pair and the number leaving it the second.
C3_InFirstOutSecond ==
    (Returned /\ directed) =>
        \A i \in 1..Len(degree_sequence) :
            /\ InDeg(edges, i) = degree_sequence[i][1]
            /\ OutDeg(edges, i) = degree_sequence[i][2]

\* a directed realisation returned for a sequence whose two components differ somewhere
C3_Witness ==
    /\ Returned /\ directed
    /\ \E i \in 1..Len(degree_sequence) : degree_sequence[i][1] # degree_sequence[i][2]
    /\ edges # EmptyCounter

\* C4: in a returned undirected multiset, whatever the flags, vertex i has degree
\* degree_sequence[i-1] (a self-loop counted as 2) and the number of canonical
\* edges is half the sum of the sequence.
C4_UndirectedDegrees ==
    (Returned /\ ~directed) =>
        /\ \A i \in 1..Len(degree_sequence) : Degree(edges, i) = degree_sequence[i]
        /\ 2 * Len(get_edges(edges, FALSE)) = SeqSum(degree_sequence)
        /\ \A k \in DOMAIN edges : k[1] \in 1..Len(degree_sequence)

\* an undirected realisation returned that holds a self-loop and another edge
C4_Witness ==
    /\ Returned /\ ~directed /\ self_loop
    /\ \E v \in Vertex : <<v, v>> \in DOMAIN edges
    /\ \E k \in DOMAIN edges : k[1] # k[2]

\* an undirected realisation returned that holds a repeated edge
C4_WitnessRepeated ==
    /\ Returned /\ ~directed /\ repeated_edges
    /\ \E k \in DOMAIN edges : k[1] # k[2] /\ edges[k] >= 2

K4 == [k \in {e \in (1..4) \X (1..4) : e[1] # e[2]} |-> 1]

\* C5: with self_loop=False and repeated_edges=False every returned multiset is
\* simple (no pair (v,v), every stored pair once), and [3,3,3,3] is realised as
\* the complete graph on 4 vertices with 6 edges.
C5_SimpleRealisation ==
    /\ (Returned /\ ~self_loop /\ ~repeated_edges) =>
           \A k \in DOMAIN edges : k[1] # k[2] /\ edges[k] = 1
    /\ (pc \in {"done", "error"} /\ ~directed /\ ~self_loop /\ ~repeated_edges
            /\ degree_sequence = <<3, 3, 3, 3>>) =>
           (Returned /\ edges = K4 /\ Len(get_edges(edges, FALSE)) = 6)

\* the simple realisation of [3,3,3,3] returned
C5_Witness ==
    /\ Returned /\ ~directed /\ ~self_loop /\ ~repeated_edges
    /\ degree_sequence = <<3, 3, 3, 3>>

\* a simple directed realisation returned in which the sink had to be skipped
C5_WitnessDirected ==
    /\ Returned /\ directed /\ ~self_loop /\ ~repeated_edges
    /\ Len(degree_sequence) = 3
    /\ \A i \in 1..3 : degree_sequence[i] = <<2, 2>>

\* ------------------------------------------------------------ claims on the factories
\* the vertices joined to a vertex of S by the edges ES, S included
RECURSIVE Reach(_, _)
Reach(S, ES) ==
    LET T == S \cup {e[2] : e \in {x \in ES : x[1] \in S}}
               \cup {e[1] : e \in {x \in ES : x[2] \in S}}
    IN IF T = S THEN S ELSE Reach(T, ES)

SeqSet(L) == {L[k] : k \in 1..Len(L)}

\* the edge list L joins the vertices 1..n into one component
IsConnected(n, L) == Reach({1}, SeqSet(L)) = 1..n

\* in the edge list L every vertex 2..n has exactly one edge from a lower vertex,
\* and L holds nothing else
OneLowerParentEach(n, L) ==
    /\ \A k \in 1..Len(L) : L[k][1] < L[k][2] /\ L[k][2] \in 2..n
    /\ \A v \in 2..n : Cardinality({k \in 1..Len(L) : L[k][2] = v}) = 1

TreeArgsValid ==
    /\ 0 <= chain /\ chain <= Den /\ 0 <= flower /\ flower <= Den
    /\ chain + flower <= Den

\* C8: for point_count >= 1 and chain, flower in [0,1] with chain + flower <= 1, tree
\* returns a graph of point_count - 1 edges in which every vertex 2..point_count has
\* exactly one edge to a lower vertex (so it is connected); chain = 1 gives the path
\* 1-2-...-n and flower = 1 the star centred at 1.
C8_TreeShape ==
    LET L == iterate_edges(g_edges, g_directed) IN
    /\ (pc = "error") => ~TreeArgsValid
    /\ (pc = "done") =>
          /\ TreeArgsValid
          /\ Len(L) = point_count - 1
          /\ OneLowerParentEach(point_count, L)
          /\ IsConnected(point_count, L)
          /\ (chain = Den) => L = [k \in 1..(point_count - 1) |-> <<k, k + 1>>]
          /\ (flower = Den) => L = [k \in 1..(point_count - 1) |-> <<1, k + 1>>]

\* a tree was returned that has a chain edge, a flower edge and a random edge
C8_Witness ==
    /\ pc = "done" /\ method = "tree" /\ point_count >= 4
    /\ chain_count >= 1 /\ flower_count >= 1
    /\ chain_count + flower_count < point_count - 1

BinaryArgsValid ==
    /\ 0 <= left /\ left <= Den /\ 0 <= right /\ right <= Den
    /\ left + right <= Den

\* the pool holds, once each, exactly the placed vertices without a child in side
PoolIsOpenSlots(pool, side, placed) ==
    /\ pool # <<>>
    /\ Cardinality(SeqSet(pool)) = Len(pool)
    /\ SeqSet(pool) = {v \in placed : ~\E c \in placed : <<v, c>> \in side}

C10_ConnectedFactories ==
    LET L == iterate_edges(g_edges, g_directed) IN
    /\ (pc = "done") =>
          /\ Len(L) = edge_count_arg
          /\ edge_count_arg >= point_count - 1
          /\ IsConnected(point_count, L)
    /\ (edge_count_arg < point_count - 1) =>
          /\ pc \in {"call", "DAG", "UDAG", "error"}
          /\ g_edges = <<>>

\* connected() returned a graph with more edges than its spanning tree
C10_Witness ==
    /\ pc = "done" /\ method = "connected"
    /\ point_count >= 3
    /\ edge_count_arg > point_count - 1

\* a request below point_count - 1 was rejected
C10_WitnessRejected ==
    /\ pc = "error" /\ edge_count_arg < point_count - 1

\* the vertices reached from a vertex of S along the arcs ES, S included
RECURSIVE Descendants(_, _)
Descendants(S, ES) ==
    LET T == S \cup {e[2] : e \in {x \in ES : x[1] \in S}}
    IN IF T = S THEN S ELSE Descendants(T, ES)

\* the arc list L has no directed cycle, of any length
Acyclic(L) ==
    \A v \in Vertex \cup {0} :
        v \notin Descendants({e[2] : e \in {x \in SeqSet(L) : x[1] = v}}, SeqSet(L))

\* C11: every graph returned by DAG with loop not set has no directed cycle, an
\* arc (v, v) included, whatever self_loop and repeated_edges are.
C11_DAGAcyclic ==
    (pc = "done" /\ caller = "DAG" /\ ~loop) =>
        Acyclic(iterate_edges(g_edges, g_directed))

\* the number of connected components of the graph on 1..n with edge list L
Components(n, L) == Cardinality({Reach({v}, SeqSet(L)) : v \in 1..n})

\* C12: for 1 <= tree_count <= point_count forest returns a graph with exactly
\* point_count - tree_count edges, all distinct edges of one tree, and exactly
\* tree_count connected components; a tree_count outside 1..point_count is
\* rejected before any graph is built.
C12_Forest ==
    LET L == iterate_edges(g_edges, g_directed) IN
    /\ (method = "forest" /\ pc = "done") =>
          /\ tree_count \in 1..point_count
          /\ Len(L) = point_count - tree_count
          /\ Cardinality(SeqSet(L)) = Len(L)
          /\ SeqSet(L) \subseteq SeqSet(tree_edges)
          /\ OneLowerParentEach(point_count, tree_edges)
          /\ Components(point_count, L) = tree_count
    /\ (method = "forest" /\ tree_count \notin 1..point_count) =>
          /\ pc \in {"call", "error"}
          /\ g_edges = <<>>

\* forest(4, 2) returned: 2 edges, 2 components
C12_Witness ==
    /\ method = "forest" /\ pc = "done"
    /\ point_count = 4 /\ tree_count = 2
    /\ Len(iterate_edges(g_edges, g_directed)) = 2

\* the number of distinct edges on n vertices: ordered pairs when d, unordered
\* otherwise, pairs (v, v) counted when sl
DistinctEdges(n, d, sl) ==
    Cardinality({e \in (1..n) \X (1..n) :
                    /\ (d \/ e[1] <= e[2])
                    /\ (sl \/ e[1] # e[2])})

\* C13: graph() with repeated_edges = False fails validation, before any edge is
\* generated, exactly when edge_count exceeds the number of distinct edges for
\* point_count, directed and self_loop.
C13_GraphCapacityCheck ==
    (method = "graph" /\ ~repeated_edges /\ pc # "call") =>
        IF edge_count_arg > DistinctEdges(point_count, arg_directed, self_loop)
        THEN pc = "error" /\ err = "Exception" /\ g_edges = <<>>
        ELSE pc # "error"

\* graph(3, 4, repeated_edges=False, self_loop=False, directed=False) failed
C13_Witness ==
    /\ method = "graph" /\ pc = "error"
    /\ point_count = 3 /\ edge_count_arg = 4
    /\ ~repeated_edges /\ ~self_loop /\ ~arg_directed

\* a request of exactly the capacity was accepted and returned
C13_WitnessAccepted ==
    /\ method = "graph" /\ pc = "done" /\ ~repeated_edges
    /\ edge_count_arg = DistinctEdges(point_count, arg_directed, self_loop)
    /\ edge_count_arg > 0

SpfaSix == method = "hack_spfa" /\ pc = "done" /\ point_count = 6 /\ extraedg = 0

\* C14 as stated: hack_spfa(point_count=6, extra_edge=0) produces exactly 6 edges
\* forming the two-half cross-linked pattern, with no extra edges.
C14_SpfaSixEdges ==
    SpfaSix => Len(iterate_edges(g_edges, g_directed)) = 6

\* C14 amended: hack_spfa(point_count=6, extra_edge=0) produces exactly 7 edges: the
\* paths 1-2-3 and 4-5-6 and the cross links 1-4, 2-5, 3-6, with no extra edges.
C14_SpfaSevenEdges ==
    SpfaSix =>
        LET L == iterate_edges(g_edges, g_directed) IN
        /\ Len(L) = 7
        /\ SeqSet(L) = {<<1, 2>>, <<2, 3>>, <<4, 5>>, <<5, 6>>,
                        <<1, 4>>, <<2, 5>>, <<3, 6>>}

\* hack_spfa(6, extra_edge=0) returned
C14_Witness == SpfaSix /\ g_edges # Graph(6)

\* dimension d of the request cannot be answered
BadDimension(d) ==
    LET cur == CurRange(position_range[d])
    IN cur[1] > cur[2] \/ (mode = "less" /\ cur[1] = cur[2])

\* C15: get_one_query returns, for every dimension with range [lo, hi], values
\* lo <= l <= r <= hi, with l < r in mode less; it raises ValueError and returns no
\* query when lo > hi in some dimension, or the mode is less and lo = hi.
C15_QueryInRange ==
    (mode # "none") =>
        /\ (pc = "done") =>
              /\ Len(query_l) = Len(position_range)
              /\ Len(query_r) = Len(position_range)
              /\ \A d \in 1..Len(position_range) :
                    LET cur == CurRange(position_range[d])
                    IN /\ cur[1] <= query_l[d]
                       /\ query_l[d] <= query_r[d]
                       /\ query_r[d] <= cur[2]
                       /\ (mode = "less" => query_l[d] < query_r[d])
        /\ (\E d \in 1..Len(position_range) : BadDimension(d)) =>
              /\ pc # "done"
              /\ \A d \in 1..dim_i : ~BadDimension(d)
        /\ (pc = "error") =>
              /\ err = "ValueError"
              /\ BadDimension(dim_i + 1)

\* a two-dimensional query in mode less was returned, one value drawn high first
C15_Witness ==
    /\ mode = "less" /\ pc = "done"
    /\ Len(position_range) = 2
    /\ query_l[1] < query_r[1] /\ query_l[2] < query_r[2]

\* a request with lo = hi in mode less was refused after a good dimension
C15_WitnessRaised ==
    /\ mode = "less" /\ pc = "error" /\ dim_i = 1
    /\ CurRange(position_range[2])[1] = CurRange(position_range[2])[2]

\* some simple undirected graph on the vertices 1..Len(ds) has the degrees ds
UndirectedGraphical(ds) ==
    LET n == Len(ds) IN
    /\ \A i \in 1..n : ds[i] >= 0
    /\ SeqSum(ds) % 2 = 0
    /\ \E E \in SUBSET {e \in (1..n) \X (1..n) : e[1] < e[2]} :
          \A i \in 1..n : Cardinality({e \in E : e[1] = i \/ e[2] = i}) = ds[i]

\* some simple digraph on the vertices 1..Len(ds) has the (in, out) degrees ds
DirectedGraphical(ds) ==
    LET n == Len(ds) IN
    /\ \A i \in 1..n : ds[i][1] >= 0 /\ ds[i][2] >= 0
    /\ \E E \in SUBSET {e \in (1..n) \X (1..n) : e[1] # e[2]} :
          \A i \in 1..n : /\ Cardinality({e \in E : e[2] = i}) = ds[i][1]
                          /\ Cardinality({e \in E : e[1] = i}) = ds[i][2]

\* C16: with self_loop = False and repeated_edges = False the realisations fail
\* only on input that no simple graph (digraph) realises, the empty sequence
\* included.
C16_SimpleGreedyComplete ==
    (pc = "error" /\ ~self_loop /\ ~repeated_edges) =>
        IF directed THEN ~DirectedGraphical(degree_sequence)
        ELSE ~UndirectedGraphical(degree_sequence)

\* some undirected multigraph on 1..Len(ds), with self-loops only when sl, has the
\* degrees ds; M gives each pair of vertices of positive degree its number of
\* edges, a self-loop counting twice
UndirectedMultiRealisable(ds, sl) ==
    LET n == Len(ds)
        P == {e \in (1..n) \X (1..n) :
                 (e[1] < e[2] \/ (sl /\ e[1] = e[2])) /\ ds[e[1]] > 0 /\ ds[e[2]] > 0}
    IN /\ \A i \in 1..n : ds[i] >= 0
       /\ SeqSum(ds) % 2 = 0
       /\ \E M \in [P -> 0..MaxDeg] :
             \A i \in 1..n :
                SumOver(M, {e \in P : e[1] = i})
                + SumOver(M, {e \in P : e[2] = i}) = ds[i]

\* some directed multigraph on 1..Len(ds), with self-loops only when sl, has the
\* (in, out) degrees ds; M gives each pair (from, to) that can carry an arc its
\* number of arcs
DirectedMultiRealisable(ds, sl) ==
    LET n == Len(ds)
        P == {e \in (1..n) \X (1..n) :
                 (sl \/ e[1] # e[2]) /\ ds[e[1]][2] > 0 /\ ds[e[2]][1] > 0}
    IN /\ \A i \in 1..n : ds[i][1] >= 0 /\ ds[i][2] >= 0
       /\ SeqSum([i \in 1..n |-> ds[i][1]]) = SeqSum([i \in 1..n |-> ds[i][2]])
       /\ \E M \in [P -> 0..MaxDirDeg] :
             \A i \in 1..n :
                /\ SumOver(M, {e \in P : e[2] = i}) = ds[i][1]
                /\ SumOver(M, {e \in P : e[1] = i}) = ds[i][2]

\* C17: with repeated_edges = True a realisation fails only when no multigraph
\* permitted by self_loop has the requested degrees.
C17_MultiGreedyComplete ==
    (pc = "error" /\ err = "not_graphical" /\ repeated_edges) =>
        IF directed THEN ~DirectedMultiRealisable(degree_sequence, self_loop)
        ELSE ~UndirectedMultiRealisable(degree_sequence, self_loop)

\* every canonical pair has multiplicity at most 1
NoRepeatedPair(E) == \A k \in DOMAIN E : E[k] <= 1

\* C18: a switch call with repeated_edges = False on a multiset in which every
\* canonical pair has multiplicity 1 leaves every canonical pair with multiplicity
\* at most 1 (self_loop True or False, directed or undirected), and no switch call
\* with self_loop = False creates a pair (v, v).
C18_SwitchKeepsPolicy ==
    [][(op' = "switch" /\ phase = "ready") =>
          /\ (~repeated_edges' /\ NoRepeatedPair(edges)) => NoRepeatedPair(edges')
          /\ ~self_loop' => \A v \in Vertex : Cnt(edges', <<v, v>>) <= Cnt(edges, <<v, v>>)
      ]_vars

\* C19: every graph returned by graph() or UDAG has exactly edge_count edges, no
\* self-loop when self_loop = False, and when repeated_edges = False no two edges
\* on the same pair of vertices (ordered when directed, unordered otherwise).
C19_GraphPolicy ==
    (pc = "done" /\ method \in {"graph", "UDAG"}) =>
        LET L == iterate_edges(g_edges, g_directed) IN
        /\ Len(L) = edge_count_arg
        /\ ~self_loop => \A k \in 1..Len(L) : L[k][1] # L[k][2]
        /\ ~repeated_edges =>
              \A j \in 1..Len(L), k \in 1..Len(L) :
                 j # k => Canon(g_directed, L[j]) # Canon(g_directed, L[k])

\* UDAG returned a simple graph with an edge beyond its spanning tree
C19_Witness ==
    /\ pc = "done" /\ method = "UDAG"
    /\ ~self_loop /\ ~repeated_edges
    /\ point_count = 3 /\ edge_count_arg = 3

\* graph() returned a directed graph without repeats holding both (u, v) and (v, u)
C19_WitnessGraph ==
    /\ pc = "done" /\ method = "graph" /\ g_directed /\ ~repeated_edges
    /\ \E u \in 1..point_count, v \in 1..point_count :
          u # v /\ {<<u, v>>, <<v, u>>} \subseteq SeqSet(iterate_edges(g_edges, g_directed))

\* the number of distinct arcs DAG can produce: u -> v with u <= v unless lp, the
\* arcs (v, v) only when sl
DagCapacity(n, lp, sl) ==
    Cardinality({e \in (1..n) \X (1..n) :
                    /\ (lp \/ e[1] <= e[2])
                    /\ (sl \/ e[1] # e[2])})

\* DAG was called, directly or by connected, and has passed its first check
DagValidated ==
    /\ method = "DAG" \/ (method = "connected" /\ arg_directed)
    /\ pc \notin {"call", "DAG"}
    /\ edge_count_arg >= point_count - 1

\* C20: DAG with repeated_edges = False fails validation, before any edge is
\* generated, exactly when edge_count exceeds the number of distinct arcs it can
\* produce: n(n-1)/2 without loop, n(n-1) with loop, plus n with self-loops.
C20_DagCapacityCheck ==
    (DagValidated /\ ~repeated_edges) =>
        IF edge_count_arg > DagCapacity(point_count, loop, self_loop)
        THEN pc = "error" /\ g_edges = <<>>
        ELSE pc # "error"

\* C21: every call of graph, DAG or UDAG with point_count >= 1 that passes
\* validation returns, when every vertex pair is drawn infinitely often.
C21_Terminates == (pc \notin {"call", "error"}) ~> (pc = "done")

\* C22: a call of from_degree_sequence that returns gives a graph whose edge
\* list is the multiset's get_edges() after the switches, and a call that
\* fails fails with the non-graphical-sequence error only.
C22_ReturnsSwitchedEdges ==
    method = "from_degree_sequence" =>
        /\ pc = "done" => iterate_edges(g_edges, g_directed) = get_edges(edges, directed)
        /\ pc = "error" => err = "not_graphical"

====
